---- MODULE Spec2Model ----
(***************************************************************************)
(* Model of the asynchronous HCF extension, class HcfAsync of              *)
(* src/hcf_async.py, driven the way src/sample_spider.py drives it.        *)
(*                                                                         *)
(* The state is the object's attributes; the operations are its public     *)
(* methods (on_idle, add_link_to_hcf) and the four response callbacks      *)
(* (the parse_ methods).  The host, the scrapy engine, is the environment:  *)
(* it keeps the requests it was handed (inflight), completes or drops them *)
(* in any order, and sends the spider_idle signal when it holds none.      *)
(***************************************************************************)
EXTENDS Bags, FiniteSets, Integers, Sequences, TLC

VARIABLES
    \* constructor arguments kept on the instance
    debug_mode, start_new_job, slot_buf_size, num_links_batch, consume_from,
    \* mutable attributes
    num_links_to_fetch, ids_to_delete, num_links_to_delete,
    new_job_scheduled, class_link_buf, inst_link_buf,
    \* the host: requests handed to the engine and not yet finished
    inflight,
    \* the step just taken (last_op), what it emitted or returned if it
    \* was on_idle (idle_emitted, idle_result) or add_link_to_hcf
    \* (add_result), and counters of what has happened so far
    last_op, idle_emitted, idle_result, add_result,
    arg_num_links_batch, arg_num_links_to_fetch, num_callbacks,
    num_enqueued, num_served, followups_emitted, since_flush,
    \* a second HcfAsync instance of the same process: its link_buf
    \* attribute, and the links added through it since its last flush
    other_link_buf, other_since_flush

config_vars == <<debug_mode, start_new_job, slot_buf_size, num_links_batch,
                 consume_from, arg_num_links_batch, arg_num_links_to_fetch>>
core_vars == <<num_links_to_fetch, ids_to_delete, num_links_to_delete,
               new_job_scheduled, class_link_buf, inst_link_buf>>
hist_vars == <<last_op, idle_emitted, idle_result, add_result,
               num_callbacks, num_enqueued, num_served, followups_emitted,
               since_flush>>
other_vars == <<other_link_buf, other_since_flush>>
vars == <<config_vars, core_vars, inflight, hist_vars, other_vars>>

----------------------------------------------------------------------------
(* Bounds of the model *)

\* total number of add_link_to_hcf calls in one run
MaxEnqueue == 3
\* number of non-empty fetch responses the remote queue serves in one run
MaxRemote == 2
\* largest slot_buf_size argument
MaxCap == 3

(* Program constants *)

\* the hardcoded upper limit of num_links_batch
MaxBatch == 10000
\* the only status the callbacks accept
StatusOk == 200

(* Inputs *)

Frontiers == {"f1"}
Slots == {"s1", "s2"}
\* the (frontier, slot) pairs links are added to
Destinations == Frontiers \X Slots
\* an optional argument is {} (None) or {value}
LinkArgs == { <<"A", {}, {}, {}>>,
              <<"B", {"q"}, {"f"}, {0}>> }
\* the arguments of the call after n calls: the spider alternates between
\* a bare fingerprint and a link with every optional argument (the method
\* branches on the destination and on the buffer length, never on these)
LinkArg(n) == CHOOSE a \in LinkArgs : a[1] = (IF n % 2 = 0 THEN "A" ELSE "B")
FetchArgs == {0, 1, MaxBatch + 2}
BatchArgs == {1, MaxBatch + 1}
\* slot_buf_size: a flush on every call, and a buffer that fills up
SlotBufSizeArgs == {1, MaxCap}
\* consume_from: <<>> stands for None
ConsumeArgs == { <<>>, <<"f1", "s1">> }
Statuses == {StatusOk, 500}
\* one link of a fetch response: [fingerprint, qdata]
HcfLink == <<"u", "d">>

Min(a, b) == IF a < b THEN a ELSE b
Max(a, b) == IF a > b THEN a ELSE b

\* one line of a fetch response body: {"id": ..., "requests": [...]}
Line(id, n) == [id |-> id, requests |-> [i \in 1..n |-> HcfLink]]
\* the response bodies the remote queue answers a read with: no batch,
\* a batch without links, a batch of one link, two batches of one link each
Bodies == { <<>>,
            <<Line(1, 0)>>,
            <<Line(1, 1)>>,
            <<Line(2, 1), Line(3, 1)>> }

----------------------------------------------------------------------------
(* Python values *)

\* ids_to_delete is None or a list
NoneIds == [none |-> TRUE, list |-> <<>>]
ListIds(l) == [none |-> FALSE, list |-> l]
Truthy(ids) == ~ids.none /\ ids.list # <<>>

\* dict operations
EmptyDict == [k \in {} |-> <<>>]
DictPop(d, k) == [x \in DOMAIN d \ {k} |-> d[x]]
DictSet(d, k, v) == [x \in DOMAIN d \cup {k} |-> IF x = k THEN v ELSE d[x]]
DictGet(d, k, default) == IF k \in DOMAIN d THEN d[k] ELSE default

\* self.link_buf: the instance attribute once on_idle has assigned one,
\* the class attribute until then
LinkBuf == IF inst_link_buf.own THEN inst_link_buf.dict ELSE class_link_buf

\* the slot buffer of a destination, [] when the dict has no entry
SlotBuf(buf, frontier, slot) ==
    IF frontier \in DOMAIN buf /\ slot \in DOMAIN buf[frontier]
    THEN buf[frontier][slot] ELSE <<>>

----------------------------------------------------------------------------
(* Requests handed to the engine *)

NoRequest ==
    [callback |-> "None", method |-> "", frontier |-> "", slot |-> "",
     suffix |-> <<>>, ids |-> <<>>, links |-> <<>>, num_ids |-> 0,
     num_links |-> 0, mincount |-> 0]

DeleteRequest(frontier, slot, ids, num_links) ==
    [NoRequest EXCEPT !.callback = "parse_delete_from_queue",
                      !.method = "POST", !.frontier = frontier,
                      !.slot = slot, !.suffix = <<"q", "deleted">>,
                      !.ids = ids, !.num_ids = Len(ids),
                      !.num_links = num_links]

\* min(num_links_batch, num_links_to_fetch), the mincount of a read
MinCount(batch, to_fetch) == Min(batch, to_fetch)

ReadRequest(frontier, slot, batch, to_fetch) ==
    [NoRequest EXCEPT !.callback = "parse_read_queue", !.method = "GET",
                      !.frontier = frontier, !.slot = slot,
                      !.suffix = <<"q">>,
                      !.mincount = MinCount(batch, to_fetch)]

_get_add_queue_request(frontier, slot, links) ==
    [NoRequest EXCEPT !.callback = "parse_add_queue", !.method = "POST",
                      !.frontier = frontier, !.slot = slot,
                      !.links = links, !.num_links = Len(links)]

ScheduleRequest ==
    [NoRequest EXCEPT !.callback = "parse_schedule_job", !.method = "POST"]

Category(req) ==
    CASE req.callback = "parse_delete_from_queue" -> "delete"
      [] req.callback = "parse_read_queue" -> "fetch"
      [] req.callback = "parse_add_queue" -> "flush"
      [] req.callback = "parse_schedule_job" -> "followup"
      [] OTHER -> "none"

NoOp == [kind |-> "init", status |-> 0, req |-> NoRequest, body |-> <<>>,
         frontier |-> "", slot |-> "", hist |-> <<>>]

----------------------------------------------------------------------------
(* Construction *)

\* the batch size taken as given, without the upper limit
CapBatch_Uncapped(n) == n

\* self.num_links_batch = min(num_links_batch, 10000)
CapBatch(n) == Min(n, MaxBatch)

\* the state after HcfAsync(...) with num_links_to_fetch out of fetch_args
Construct(fetch_args) ==
    /\ debug_mode \in BOOLEAN
    /\ start_new_job \in BOOLEAN
    /\ slot_buf_size \in SlotBufSizeArgs
    /\ arg_num_links_batch \in BatchArgs
    /\ num_links_batch = CapBatch(arg_num_links_batch)
    /\ consume_from \in ConsumeArgs
    /\ arg_num_links_to_fetch \in fetch_args
    /\ num_links_to_fetch = arg_num_links_to_fetch
    /\ ids_to_delete = NoneIds
    /\ num_links_to_delete = 0
    /\ new_job_scheduled = FALSE
    /\ class_link_buf = EmptyDict
    /\ inst_link_buf = [own |-> FALSE, dict |-> EmptyDict]
    /\ inflight = EmptyBag
    /\ last_op = NoOp
    /\ idle_emitted = EmptyBag
    /\ idle_result = "None"
    /\ add_result = NoRequest
    /\ num_callbacks = 0
    /\ num_enqueued = 0
    /\ num_served = 0
    /\ followups_emitted = 0
    /\ since_flush = [d \in Destinations |-> <<>>]
    /\ other_link_buf = [own |-> FALSE, dict |-> EmptyDict]
    /\ other_since_flush = [d \in Destinations |-> <<>>]

Init == Construct(FetchArgs)

----------------------------------------------------------------------------
(* on_idle: the handler of the spider_idle signal *)

\* spider.crawler.engine.crawl(request, spider) for each request of reqs,
\* and what the evaluation ends with
Emit(reqs, result) ==
    /\ inflight' = inflight (+) SetToBag(reqs)
    /\ idle_emitted' = SetToBag(reqs)
    /\ idle_result' = result

\* `frontier, slot = self.consume_from` raises when consume_from is None
CanUnpack(cf) == Len(cf) = 2

\* the delete branch without the two assignments after the request
IdleDelete_KeepIds ==
    /\ Emit({DeleteRequest(consume_from[1], consume_from[2],
                           ids_to_delete.list, num_links_to_delete)},
            "DontCloseSpider")
    /\ UNCHANGED core_vars

\* if self.ids_to_delete and not self.debug_mode
IdleDelete ==
    IF CanUnpack(consume_from)
    THEN /\ Emit({DeleteRequest(consume_from[1], consume_from[2],
                                ids_to_delete.list, num_links_to_delete)},
                 "DontCloseSpider")
         /\ num_links_to_delete' = 0
         /\ ids_to_delete' = NoneIds
         /\ UNCHANGED <<num_links_to_fetch, new_job_scheduled,
                        class_link_buf, inst_link_buf>>
    ELSE /\ Emit({}, "TypeError")
         /\ UNCHANGED core_vars

\* elif self.num_links_to_fetch
IdleFetch ==
    /\ IF CanUnpack(consume_from)
       THEN Emit({ReadRequest(consume_from[1], consume_from[2],
                              num_links_batch, num_links_to_fetch)},
                 "DontCloseSpider")
       ELSE Emit({}, "TypeError")
    /\ UNCHANGED core_vars

\* the requests of the flush branch, one for each non-empty slot buffer
FlushRequests(buf) ==
    { _get_add_queue_request(f, s, buf[f][s]) :
        <<f, s>> \in { d \in Frontiers \X Slots :
                        /\ d[1] \in DOMAIN buf
                        /\ d[2] \in DOMAIN buf[d[1]]
                        /\ buf[d[1]][d[2]] # <<>> } }

\* the flush branch without `self.link_buf = {}`
IdleFlush_KeepBuffer ==
    /\ Emit(FlushRequests(LinkBuf), "DontCloseSpider")
    /\ UNCHANGED core_vars

\* elif self.link_buf
IdleFlush ==
    /\ Emit(FlushRequests(LinkBuf), "DontCloseSpider")
    /\ inst_link_buf' = [own |-> TRUE, dict |-> EmptyDict]
    /\ UNCHANGED <<num_links_to_fetch, ids_to_delete, num_links_to_delete,
                   new_job_scheduled, class_link_buf>>

\* the schedule branch without `self.new_job_scheduled = True`
IdleSchedule_FlagNotSet ==
    /\ Emit({ScheduleRequest}, "DontCloseSpider")
    /\ UNCHANGED core_vars

\* elif self.start_new_job and not self.new_job_scheduled
IdleSchedule ==
    /\ Emit({ScheduleRequest}, "DontCloseSpider")
    /\ new_job_scheduled' = TRUE
    /\ UNCHANGED <<num_links_to_fetch, ids_to_delete, num_links_to_delete,
                   class_link_buf, inst_link_buf>>

\* no branch applies: the method returns None
IdleNothing ==
    /\ Emit({}, "None")
    /\ UNCHANGED core_vars

\* the chain with the delete test not looking at debug_mode
IdleBranch_DeleteInDebug ==
    IF Truthy(ids_to_delete) THEN "delete"
    ELSE IF num_links_to_fetch # 0 THEN "fetch"
    ELSE IF DOMAIN LinkBuf # {} THEN "flush"
    ELSE IF start_new_job /\ ~new_job_scheduled THEN "followup"
    ELSE "none"

\* the chain with the fetch test ahead of the delete test
IdleBranch_FetchFirst ==
    IF num_links_to_fetch # 0 THEN "fetch"
    ELSE IF Truthy(ids_to_delete) /\ ~debug_mode THEN "delete"
    ELSE IF DOMAIN LinkBuf # {} THEN "flush"
    ELSE IF start_new_job /\ ~new_job_scheduled THEN "followup"
    ELSE "none"

\* the branch on_idle takes in the current state
IdleBranch ==
    IF Truthy(ids_to_delete) /\ ~debug_mode THEN "delete"
    ELSE IF num_links_to_fetch # 0 THEN "fetch"
    ELSE IF DOMAIN LinkBuf # {} THEN "flush"
    ELSE IF start_new_job /\ ~new_job_scheduled THEN "followup"
    ELSE "none"

\* the signal sent whatever the engine still holds
SpiderIdle_Anytime == TRUE

\* scrapy.signals.spider_idle, which on_idle is connected to: the engine
\* sends it when it holds no request of the spider
SpiderIdle == inflight = EmptyBag

on_idle ==
    /\ SpiderIdle
    /\ CASE IdleBranch = "delete" -> IdleDelete
         [] IdleBranch = "fetch" -> IdleFetch
         [] IdleBranch = "flush" -> IdleFlush
         [] IdleBranch = "followup" -> IdleSchedule
         [] OTHER -> IdleNothing
    /\ last_op' = [NoOp EXCEPT !.kind = "on_idle"]
    /\ followups_emitted' = followups_emitted +
         Cardinality({ r \in BagToSet(idle_emitted') :
                         Category(r) = "followup" })
    /\ since_flush' =
         IF IdleBranch = "flush"
         THEN [d \in Destinations |-> <<>>]
         ELSE since_flush
    /\ add_result' = NoRequest
    /\ UNCHANGED <<config_vars, num_callbacks, num_enqueued, num_served,
                   other_vars>>

----------------------------------------------------------------------------
(* add_link_to_hcf, and the caller that yields the returned request *)

\* link_data: 'fp' and every optional argument that is not None
LinkData(fingerprint, qdata, fdata, p) ==
    LET keys == {"fp"} \cup (IF qdata # {} THEN {"qdata"} ELSE {})
                       \cup (IF fdata # {} THEN {"fdata"} ELSE {})
                       \cup (IF p # {} THEN {"p"} ELSE {})
    IN  [k \in keys |->
            CASE k = "fp" -> fingerprint
              [] k = "qdata" -> CHOOSE v \in qdata : TRUE
              [] k = "fdata" -> CHOOSE v \in fdata : TRUE
              [] k = "p" -> CHOOSE v \in p : TRUE]

\* the comparison off by one: full only above the capacity
IsFull_Above(slot_buf, size) == Len(slot_buf) > size

\* len(slot_buf) >= self.slot_buf_size
IsFull(slot_buf, size) == Len(slot_buf) >= size

\* the full slot buffer emptied in place instead of popped
FrontierBufAfter_KeepEmptySlot(frontier_buf, slot, slot_buf, full) ==
    IF full THEN DictSet(frontier_buf, slot, <<>>)
    ELSE DictSet(frontier_buf, slot, slot_buf)

\* the frontier's dict after the append and, when full, frontier_buf.pop(slot)
FrontierBufAfter(frontier_buf, slot, slot_buf, full) ==
    IF full THEN DictPop(frontier_buf, slot)
    ELSE DictSet(frontier_buf, slot, slot_buf)

\* the emptied frontier entry left in link_buf
LinkBufAfter_NoPrune(buf, frontier, frontier_buf, full) ==
    DictSet(buf, frontier, frontier_buf)

\* link_buf after the call: `if not frontier_buf: self.link_buf.pop(frontier)`
LinkBufAfter(buf, frontier, frontier_buf, full) ==
    IF full /\ DOMAIN frontier_buf = {} THEN DictPop(buf, frontier)
    ELSE DictSet(buf, frontier, frontier_buf)

add_link_to_hcf(frontier, slot, fingerprint, qdata, fdata, p) ==
    LET link_data == LinkData(fingerprint, qdata, fdata, p)
        buf == LinkBuf
        frontier_buf == DictGet(buf, frontier, EmptyDict)
        slot_buf == Append(DictGet(frontier_buf, slot, <<>>), link_data)
        full == IsFull(slot_buf, slot_buf_size)
        frontier_after == FrontierBufAfter(frontier_buf, slot, slot_buf, full)
        buf_after == LinkBufAfter(buf, frontier, frontier_after, full)
        request == IF full
                   THEN _get_add_queue_request(frontier, slot, slot_buf)
                   ELSE NoRequest
        hist == Append(since_flush[<<frontier, slot>>], link_data)
    IN  /\ num_enqueued < MaxEnqueue
        \* the dict self.link_buf names is changed in place
        /\ IF inst_link_buf.own
           THEN /\ inst_link_buf' = [inst_link_buf EXCEPT !.dict = buf_after]
                /\ UNCHANGED class_link_buf
           ELSE /\ class_link_buf' = buf_after
                /\ UNCHANGED inst_link_buf
        /\ add_result' = request
        \* the spider yields the request, if any, to the engine
        /\ inflight' = IF full THEN inflight (+) SetToBag({request})
                       ELSE inflight
        /\ num_enqueued' = num_enqueued + 1
        /\ last_op' = [NoOp EXCEPT !.kind = "add_link_to_hcf",
                                   !.frontier = frontier, !.slot = slot,
                                   !.hist = hist]
        /\ since_flush' = [since_flush EXCEPT ![<<frontier, slot>>] =
                             IF full THEN <<>> ELSE hist]
        /\ idle_emitted' = EmptyBag
        /\ idle_result' = "None"
        /\ UNCHANGED <<config_vars, num_links_to_fetch, ids_to_delete,
                       num_links_to_delete, new_job_scheduled,
                       num_callbacks, num_served, followups_emitted,
                       other_vars>>

AddLink ==
    \E d \in Destinations :
        LET a == LinkArg(num_enqueued)
        IN  add_link_to_hcf(d[1], d[2], a[1], a[2], a[3], a[4])

----------------------------------------------------------------------------
(* The response callbacks *)

RECURSIVE Concat(_)
\* links.extend(jdata['requests']) over the lines of the body
Concat(body) ==
    IF body = <<>> THEN <<>>
    ELSE body[1].requests \o Concat(Tail(body))

\* the counter left as it is in debug mode
RemainingAfter_NoDebugStop(to_fetch, n, debug) ==
    IF n = 0 THEN 0 ELSE Max(to_fetch - n, 0)

\* the counter decremented without the floor at 0
RemainingAfter_NoFloor(to_fetch, n, debug) ==
    IF debug \/ n = 0 THEN 0 ELSE to_fetch - n

\* the counter cleared by an empty read only, never decremented
RemainingAfter_NoDecrement(to_fetch, n, debug) ==
    IF n = 0 THEN 0 ELSE to_fetch

\* the new value of num_links_to_fetch after a read of n links
RemainingAfter(to_fetch, n, debug) ==
    LET floored == Max(to_fetch - n, 0)
        emptied == IF n = 0 THEN 0 ELSE floored
    IN  IF debug THEN 0 ELSE emptied

\* parse_read_queue without its assertion on the status
parse_read_queue_NoAssert(status, body) ==
    LET links == Concat(body)
    IN  /\ ids_to_delete' = ListIds([i \in 1..Len(body) |-> body[i].id])
        /\ num_links_to_delete' = Len(links)
        /\ num_links_to_fetch' =
             RemainingAfter(num_links_to_fetch, Len(links), debug_mode)
        /\ num_callbacks' = num_callbacks + 1
        /\ UNCHANGED <<new_job_scheduled, class_link_buf, inst_link_buf>>

\* `assert response.status == 200` fails before anything is assigned
parse_read_queue(status, body) ==
    IF status = StatusOk
    THEN LET links == Concat(body)
         IN  /\ ids_to_delete' =
                  ListIds([i \in 1..Len(body) |-> body[i].id])
             /\ num_links_to_delete' = Len(links)
             /\ num_links_to_fetch' =
                  RemainingAfter(num_links_to_fetch, Len(links), debug_mode)
             \* self.new_link_callback(links)
             /\ num_callbacks' = num_callbacks + 1
             /\ UNCHANGED <<new_job_scheduled, class_link_buf,
                            inst_link_buf>>
    ELSE UNCHANGED <<core_vars, num_callbacks>>

\* assert, then a log message
parse_delete_from_queue(status) ==
    UNCHANGED <<core_vars, num_callbacks>>

\* assert, then a log message
parse_add_queue(status) ==
    UNCHANGED <<core_vars, num_callbacks>>

\* assert, then a log message
parse_schedule_job(status) ==
    UNCHANGED <<core_vars, num_callbacks>>

\* the engine finishes a request and calls its callback with the response
Respond(req, status, body) ==
        /\ body # <<>> =>
             /\ req.callback = "parse_read_queue"
             /\ status = StatusOk
             /\ num_served < MaxRemote
        /\ inflight' = inflight (-) SetToBag({req})
        /\ CASE req.callback = "parse_read_queue" ->
                    parse_read_queue(status, body)
             [] req.callback = "parse_delete_from_queue" ->
                    parse_delete_from_queue(status)
             [] req.callback = "parse_add_queue" ->
                    parse_add_queue(status)
             [] OTHER -> parse_schedule_job(status)
        /\ num_served' = IF body # <<>> THEN num_served + 1 ELSE num_served
        /\ last_op' = [NoOp EXCEPT !.kind = "complete", !.status = status,
                                   !.req = req, !.body = body]
        /\ idle_emitted' = EmptyBag
        /\ idle_result' = "None"
        /\ add_result' = NoRequest
        /\ UNCHANGED <<config_vars, num_enqueued, followups_emitted,
                       since_flush, other_vars>>

Complete ==
    \E req \in BagToSet(inflight), status \in Statuses, body \in Bodies :
        Respond(req, status, body)

\* the engine drops a request: no callback runs
Cancel ==
    \E req \in BagToSet(inflight) :
        /\ inflight' = inflight (-) SetToBag({req})
        /\ last_op' = [NoOp EXCEPT !.kind = "cancel", !.req = req]
        /\ idle_emitted' = EmptyBag
        /\ idle_result' = "None"
        /\ add_result' = NoRequest
        /\ UNCHANGED <<config_vars, core_vars, num_callbacks, num_enqueued,
                       num_served, followups_emitted, since_flush,
                       other_vars>>

----------------------------------------------------------------------------

Next == on_idle \/ AddLink \/ Complete \/ Cancel

Spec == Init /\ [][Next]_vars

(* Two instances in one process. The second one is built as
   HcfAsync(slot_buf_size=n): nothing to fetch, no follow-up job, so its
   on_idle comes down to the flush branch. Both hand their requests to the
   same engine and both handlers are connected to spider_idle. *)

\* self.link_buf as the second instance reads it
OtherLinkBuf ==
    IF other_link_buf.own THEN other_link_buf.dict ELSE class_link_buf

\* add_link_to_hcf called on the second instance
other_add_link_to_hcf(frontier, slot, fingerprint, qdata, fdata, p) ==
    LET link_data == LinkData(fingerprint, qdata, fdata, p)
        buf == OtherLinkBuf
        frontier_buf == DictGet(buf, frontier, EmptyDict)
        slot_buf == Append(DictGet(frontier_buf, slot, <<>>), link_data)
        full == IsFull(slot_buf, slot_buf_size)
        frontier_after == FrontierBufAfter(frontier_buf, slot, slot_buf, full)
        buf_after == LinkBufAfter(buf, frontier, frontier_after, full)
        request == IF full
                   THEN _get_add_queue_request(frontier, slot, slot_buf)
                   ELSE NoRequest
        hist == Append(other_since_flush[<<frontier, slot>>], link_data)
    IN  /\ num_enqueued < MaxEnqueue
        /\ IF other_link_buf.own
           THEN /\ other_link_buf' = [other_link_buf EXCEPT !.dict = buf_after]
                /\ UNCHANGED class_link_buf
           ELSE /\ class_link_buf' = buf_after
                /\ UNCHANGED other_link_buf
        /\ add_result' = request
        /\ inflight' = IF full THEN inflight (+) SetToBag({request})
                       ELSE inflight
        /\ num_enqueued' = num_enqueued + 1
        /\ last_op' = [NoOp EXCEPT !.kind = "other_add_link_to_hcf",
                                   !.frontier = frontier, !.slot = slot,
                                   !.hist = hist]
        /\ other_since_flush' =
             [other_since_flush EXCEPT ![<<frontier, slot>>] =
                IF full THEN <<>> ELSE hist]
        /\ idle_emitted' = EmptyBag
        /\ idle_result' = "None"
        /\ UNCHANGED <<config_vars, num_links_to_fetch, ids_to_delete,
                       num_links_to_delete, new_job_scheduled, inst_link_buf,
                       num_callbacks, num_served, followups_emitted,
                       since_flush>>

OtherAddLink ==
    \E d \in Destinations :
        LET a == LinkArg(num_enqueued)
        IN  other_add_link_to_hcf(d[1], d[2], a[1], a[2], a[3], a[4])

\* on_idle of the second instance: `elif self.link_buf`, or no branch
other_on_idle ==
    /\ SpiderIdle
    /\ IF DOMAIN OtherLinkBuf # {}
       THEN /\ Emit(FlushRequests(OtherLinkBuf), "DontCloseSpider")
            /\ other_link_buf' = [own |-> TRUE, dict |-> EmptyDict]
            /\ other_since_flush' = [d \in Destinations |-> <<>>]
       ELSE /\ Emit({}, "None")
            /\ UNCHANGED other_vars
    /\ last_op' = [NoOp EXCEPT !.kind = "other_on_idle"]
    /\ add_result' = NoRequest
    /\ UNCHANGED <<config_vars, core_vars, num_callbacks, num_enqueued,
                   num_served, followups_emitted, since_flush>>

\* both instances built with nothing but slot_buf_size
InitTwo ==
    /\ Construct({0})
    /\ ~debug_mode
    /\ ~start_new_job
    /\ consume_from = <<>>
    /\ arg_num_links_batch = 1

NextTwo == Next \/ OtherAddLink \/ other_on_idle

SpecTwo == InitTwo /\ [][NextTwo]_vars

(* The run in which every request gets a successful response: counters
   small enough for the remote queue to outlast them *)

LiveFetchArgs == 0..MaxRemote

InitLive == Construct(LiveFetchArgs)

\* the engine finishes a request with status 200
CompleteOk ==
    \E req \in BagToSet(inflight), body \in Bodies :
        Respond(req, StatusOk, body)

NextLive == on_idle \/ AddLink \/ CompleteOk

\* the engine answers every request it holds and sends spider_idle
\* whenever it holds none
SpecLive ==
    /\ InitLive
    /\ [][NextLive]_vars
    /\ WF_vars(CompleteOk)
    /\ WF_vars(on_idle)

----------------------------------------------------------------------------
(* Properties of the idle evaluation *)

EmittedCategories(bag) == { Category(r) : r \in BagToSet(bag) }

\* the first eligible category in the order delete, fetch, flush, follow-up
FirstEligible ==
    CASE Truthy(ids_to_delete) /\ ~debug_mode -> "delete"
      [] ~(Truthy(ids_to_delete) /\ ~debug_mode)
         /\ num_links_to_fetch # 0 -> "fetch"
      [] ~(Truthy(ids_to_delete) /\ ~debug_mode)
         /\ num_links_to_fetch = 0
         /\ DOMAIN LinkBuf # {} -> "flush"
      [] ~(Truthy(ids_to_delete) /\ ~debug_mode)
         /\ num_links_to_fetch = 0
         /\ DOMAIN LinkBuf = {}
         /\ start_new_job /\ ~new_job_scheduled -> "followup"
      [] OTHER -> "nothing"

\* C1: every idle evaluation emits operations of at most one category, the
\* first eligible one in the order delete, fetch, flush, follow-up (and,
\* with a source destination configured, it does emit that category); when
\* a delete is wanted and the counter is positive too, it emits exactly one
\* delete operation and nothing else.
C1_OneCategoryInPriorityOrder ==
    [][ last_op'.kind = "on_idle" =>
          /\ EmittedCategories(idle_emitted') \subseteq {FirstEligible}
          /\ (CanUnpack(consume_from) /\ FirstEligible # "nothing")
                => EmittedCategories(idle_emitted') = {FirstEligible}
          /\ (Truthy(ids_to_delete) /\ ~debug_mode
              /\ num_links_to_fetch > 0)
                => /\ BagCardinality(idle_emitted') = 1
                   /\ EmittedCategories(idle_emitted') = {"delete"} ]_vars

\* an idle evaluation has just emitted a delete while the counter is positive
C1_Witness ==
    /\ last_op.kind = "on_idle"
    /\ EmittedCategories(idle_emitted) = {"delete"}
    /\ ~debug_mode
    /\ num_links_to_fetch > 0

\* C2: in debug mode and in normal mode alike, on_idle emits a fetch only
\* in a state whose Pending-Delete Set (ids_to_delete) is empty.
C2_FetchOnlyWithoutPendingDelete ==
    [][ (last_op'.kind = "on_idle"
         /\ "fetch" \in EmittedCategories(idle_emitted'))
          => ~Truthy(ids_to_delete) /\ ~Truthy(ids_to_delete') ]_vars

\* a fetch has just been emitted in debug mode
C2_Witness ==
    /\ last_op.kind = "on_idle"
    /\ "fetch" \in EmittedCategories(idle_emitted)
    /\ debug_mode

\* C3 (as claimed): in normal mode, after a fetch that returned at least
\* one item, the Pending-Delete Set stays populated while the delete
\* acknowledging it is emitted and not yet completed, and no fetch is under
\* way: it is the completion, not the emission, that clears the set.
C3_PendingUntilDeleteCompletes ==
    (~debug_mode /\ \E r \in BagToSet(inflight) :
                      Category(r) = "delete" /\ r.num_links >= 1)
        => /\ Truthy(ids_to_delete)
           /\ \A r \in BagToSet(inflight) : Category(r) # "fetch"

\* C4 (as claimed): when an emitted operation is cancelled or completes
\* with a status other than 200, the condition that made it eligible still
\* holds: the ids of a delete are still pending, the counter of a fetch is
\* still positive, the links of a transmit are still buffered.
C4_FailedOperationStaysEligible ==
    (last_op.kind \in {"complete", "cancel"} /\ last_op.status # StatusOk)
        => LET req == last_op.req
           IN  CASE Category(req) = "delete" ->
                        /\ Truthy(ids_to_delete)
                        /\ ids_to_delete.list = req.ids
                 [] Category(req) = "fetch" -> num_links_to_fetch > 0
                 [] Category(req) = "flush" ->
                        LET buffered == SlotBuf(LinkBuf, req.frontier,
                                                req.slot)
                        IN  /\ Len(buffered) >= Len(req.links)
                            /\ SubSeq(buffered, 1, Len(req.links))
                                 = req.links
                 [] OTHER -> TRUE

\* C5: a completion with a status other than 200, of any category, leaves
\* the counter, the Pending-Delete Set, the write buffer and the follow-up
\* flag as they were and does not invoke the consumer callback.
C5_FailedCompletionChangesNothing ==
    [][ (last_op'.kind = "complete" /\ last_op'.status # StatusOk)
          => UNCHANGED <<core_vars, num_callbacks>> ]_vars

\* a read has just completed with a status other than 200
C5_Witness ==
    /\ last_op.kind = "complete"
    /\ last_op.status # StatusOk
    /\ last_op.req.callback = "parse_read_queue"

----------------------------------------------------------------------------
(* Properties of the write buffer *)

\* C6: with capacity >= 1, add_link_to_hcf returns a request exactly when
\* the links added to the destination since its last flush reach the
\* capacity; the request carries exactly those links in insertion order and
\* goes to that destination; every other call returns None and leaves the
\* link buffered behind the earlier ones.
C6_FlushExactlyAtCapacity ==
    last_op.kind = "add_link_to_hcf" =>
        LET hist == last_op.hist
            buffered == SlotBuf(LinkBuf, last_op.frontier, last_op.slot)
        IN  /\ add_result # NoRequest <=> Len(hist) = slot_buf_size
            /\ add_result # NoRequest =>
                 /\ add_result.links = hist
                 /\ add_result.num_links = slot_buf_size
                 /\ add_result.frontier = last_op.frontier
                 /\ add_result.slot = last_op.slot
                 /\ add_result.callback = "parse_add_queue"
                 /\ buffered = <<>>
            /\ add_result = NoRequest => buffered = hist

\* the second link to a destination of capacity 2 has just produced a batch
\* of two different links
C6_Witness ==
    /\ last_op.kind = "add_link_to_hcf"
    /\ slot_buf_size > 1
    /\ add_result # NoRequest
    /\ Len(add_result.links) = slot_buf_size
    /\ add_result.links[1] # add_result.links[2]

\* C7: the keys of the write buffer are exactly the destinations with
\* pending links: every frontier entry has a slot, every slot buffer is
\* non-empty, shorter than the capacity and holds the links added since the
\* destination was last flushed.
C7_BufferHoldsOnlyPendingData ==
    /\ \A f \in DOMAIN LinkBuf :
          /\ DOMAIN LinkBuf[f] # {}
          /\ \A sl \in DOMAIN LinkBuf[f] :
                /\ LinkBuf[f][sl] # <<>>
                /\ Len(LinkBuf[f][sl]) < slot_buf_size
    /\ \A d \in Destinations :
          /\ SlotBuf(LinkBuf, d[1], d[2]) = since_flush[d]
          /\ (d[1] \in DOMAIN LinkBuf /\ d[2] \in DOMAIN LinkBuf[d[1]])
               <=> since_flush[d] # <<>>

\* a slot buffer has just reached the capacity and left the buffer, taking
\* the frontier entry with it
C7_Witness ==
    /\ last_op.kind = "add_link_to_hcf"
    /\ add_result # NoRequest
    /\ slot_buf_size > 1
    /\ DOMAIN LinkBuf = {}

----------------------------------------------------------------------------
(* Properties of the read side *)

RECURSIVE NumLinks(_)
\* the number of links a response body carries
NumLinks(body) ==
    IF body = <<>> THEN 0
    ELSE Len(body[1].requests) + NumLinks(Tail(body))

\* C8: a successful fetch completion with batch ids `ids` covering n links
\* sets ids_to_delete to ids and the counter to 0 when n = 0 or in debug
\* mode, otherwise to max(counter - n, 0); the counter is never negative
\* and never increases.
C8_FetchResultUpdatesCounter ==
    /\ [](num_links_to_fetch >= 0)
    /\ [][num_links_to_fetch' <= num_links_to_fetch]_vars
    /\ [][ (last_op'.kind = "complete" /\ last_op'.status = StatusOk
            /\ last_op'.req.callback = "parse_read_queue")
             => LET body == last_op'.body
                    n == NumLinks(body)
                IN  /\ ids_to_delete'.none = FALSE
                    /\ Len(ids_to_delete'.list) = Len(body)
                    /\ \A i \in 1..Len(body) :
                          ids_to_delete'.list[i] = body[i].id
                    /\ num_links_to_fetch' =
                         IF n = 0 \/ debug_mode THEN 0
                         ELSE IF num_links_to_fetch - n > 0
                              THEN num_links_to_fetch - n ELSE 0 ]_vars

\* a fetch of two batches covering two links has just lowered the counter
\* by two
C8_Witness ==
    /\ last_op.kind = "complete"
    /\ last_op.status = StatusOk
    /\ last_op.req.callback = "parse_read_queue"
    /\ Len(ids_to_delete.list) = 2
    /\ num_links_to_delete = 2
    /\ num_links_to_fetch = MaxBatch

\* C9: every fetch on_idle emits requests min(batch size, counter) links
\* from consume_from, the batch size being the constructor argument capped
\* at 10000; the count is at most 10000 and at most the counter.
C9_FetchRequestsMinCount ==
    last_op.kind = "on_idle" =>
        \A r \in BagToSet(idle_emitted) :
            Category(r) = "fetch" =>
                LET batch_size == IF arg_num_links_batch > MaxBatch
                                  THEN MaxBatch ELSE arg_num_links_batch
                IN  /\ r.mincount = IF batch_size < num_links_to_fetch
                                    THEN batch_size ELSE num_links_to_fetch
                    /\ r.mincount <= MaxBatch
                    /\ r.mincount <= num_links_to_fetch
                    /\ <<r.frontier, r.slot>> = consume_from

\* a fetch has just been emitted whose count is the cap, below both the
\* batch size asked for and the counter
C9_Witness ==
    /\ last_op.kind = "on_idle"
    /\ \E r \in BagToSet(idle_emitted) :
          /\ Category(r) = "fetch"
          /\ r.mincount = MaxBatch
          /\ arg_num_links_batch > MaxBatch
          /\ num_links_to_fetch > MaxBatch

----------------------------------------------------------------------------
(* Properties of the follow-up job *)

\* C10: at most one follow-up operation is ever emitted, only if a
\* follow-up job was requested, and new_job_scheduled never returns to
\* False once it is True.
C10_FollowUpAtMostOnce ==
    /\ [](followups_emitted <= 1)
    /\ [](followups_emitted > 0 => start_new_job /\ new_job_scheduled)
    /\ [](\A r \in BagToSet(inflight) :
             Category(r) = "followup" => start_new_job)
    /\ [][new_job_scheduled => new_job_scheduled']_vars

\* an idle evaluation after the follow-up was emitted has emitted nothing
C10_Witness ==
    /\ followups_emitted = 1
    /\ last_op.kind = "on_idle"
    /\ idle_emitted = EmptyBag
    /\ inflight = EmptyBag

----------------------------------------------------------------------------
(* Properties of debug mode, of the requests outstanding and of the end of
   an idle evaluation *)

\* the number of requests of a category the engine holds
Outstanding(cat) ==
    BagCardinality([r \in { q \in BagToSet(inflight) : Category(q) = cat }
                      |-> CopiesIn(r, inflight)])

\* C11: in debug mode no delete operation is ever emitted, whatever
\* ids_to_delete holds, and once a fetch has completed successfully the
\* counter is 0, so no fetch is emitted after it: at most one batch is read.
C11_DebugNoDeleteSingleFetch ==
    /\ [](debug_mode => Outstanding("delete") = 0)
    /\ [](debug_mode /\ num_callbacks >= 1 =>
            /\ num_links_to_fetch = 0
            /\ Outstanding("fetch") = 0
            /\ num_callbacks = 1)
    /\ [][ (debug_mode /\ last_op'.kind = "on_idle") =>
             /\ "delete" \notin EmittedCategories(idle_emitted')
             /\ num_callbacks >= 1 =>
                  "fetch" \notin EmittedCategories(idle_emitted') ]_vars

\* in debug mode an idle evaluation has just run with two ids pending after
\* a fetch that returned two links out of many wanted
C11_Witness ==
    /\ debug_mode
    /\ last_op.kind = "on_idle"
    /\ Len(ids_to_delete.list) = 2
    /\ num_links_to_delete = 2
    /\ arg_num_links_to_fetch > MaxBatch
    /\ num_callbacks = 1

\* C12 (as claimed): at most one operation of each category, transmit
\* included, is outstanding in every reachable state.
C12_OnePerCategoryOutstanding ==
    \A cat \in {"delete", "fetch", "flush", "followup"} :
        Outstanding(cat) <= 1

\* C12 (amended): at most one delete, one fetch and one follow-up operation
\* is outstanding in every reachable state, and never two of these three
\* categories together; transmit operations are not limited that way.
C12_OneDeleteFetchFollowUpOutstanding ==
    Outstanding("delete") + Outstanding("fetch") + Outstanding("followup")
        <= 1

\* a fetch is outstanding together with two transmit operations
C12_Witness ==
    /\ Outstanding("fetch") = 1
    /\ Outstanding("flush") >= 2

\* C14 (as claimed): no idle evaluation of a constructed scheduler ends in
\* an error; a positive number of links to fetch without consume_from is
\* refused by the constructor.
C14_NoErrorAtIdleTime ==
    /\ idle_result # "TypeError"
    /\ arg_num_links_to_fetch > 0 => CanUnpack(consume_from)

\* C15: an idle evaluation raises DontCloseSpider if and only if it has
\* emitted at least one operation.
C15_KeepAliveIffEmitted ==
    last_op.kind = "on_idle" =>
        (idle_result = "DontCloseSpider" <=> idle_emitted # EmptyBag)

\* the flush branch has just emitted a transmit and raised DontCloseSpider
C15_Witness ==
    /\ last_op.kind = "on_idle"
    /\ idle_result = "DontCloseSpider"
    /\ EmittedCategories(idle_emitted) = {"flush"}

----------------------------------------------------------------------------
(* Properties of what is transmitted and what is acknowledged *)

\* the transmit requests a step has emitted for a destination: by on_idle
\* (idle_emitted) or by add_link_to_hcf (add_result)
TransmitsTo(emitted, returned, d) ==
    { r \in BagToSet(emitted) \cup {returned} :
        /\ Category(r) = "flush"
        /\ r.frontier = d[1]
        /\ r.slot = d[2] }

\* the links carried by the requests of a set that holds at most one
LinksOf(reqs) == IF reqs = {} THEN <<>> ELSE (CHOOSE r \in reqs : TRUE).links

\* the item a step has enqueued for a destination, as a sequence
EnqueuedFor(op, d) ==
    IF op.kind = "add_link_to_hcf" /\ <<op.frontier, op.slot>> = d
    THEN <<op.hist[Len(op.hist)]>>
    ELSE <<>>

\* C16: a flush emits exactly one transmit per destination with buffered
\* items, carrying the destination's whole sequence in insertion order, and
\* leaves the write buffer empty; in every step, for every destination, what
\* was buffered followed by what is enqueued equals what is transmitted to
\* that destination followed by what stays buffered, so every item is
\* carried by exactly one transmit, addressed to its own destination.
C16_EveryItemTransmittedOnce ==
    [][ \A d \in Destinations :
          LET sent == TransmitsTo(idle_emitted', add_result', d)
              before == SlotBuf(LinkBuf, d[1], d[2])
          IN  /\ Cardinality(sent) <= 1
              /\ \A r \in sent :
                   CopiesIn(r, inflight') = CopiesIn(r, inflight) + 1
              /\ LinksOf(sent) \o SlotBuf(LinkBuf', d[1], d[2])
                   = before \o EnqueuedFor(last_op', d)
              /\ (last_op'.kind = "on_idle" /\ IdleBranch = "flush") =>
                   /\ LinkBuf' = EmptyDict
                   /\ EmittedCategories(idle_emitted') = {"flush"}
                   /\ sent # {} <=> before # <<>>
                   /\ LinksOf(sent) = before
                   /\ \A r \in sent : r.num_links = Len(before)
      ]_vars

\* an idle evaluation has just flushed two destinations, one of them with
\* two different items in the order they were added
C16_Witness ==
    /\ last_op.kind = "on_idle"
    /\ Cardinality(BagToSet(idle_emitted)) = 2
    /\ \E r \in BagToSet(idle_emitted) :
         /\ Category(r) = "flush"
         /\ Len(r.links) = 2
         /\ r.links[1] # r.links[2]
    /\ LinkBuf = EmptyDict

\* the delete requests an idle evaluation has emitted
EmittedDeletes(emitted) ==
    { r \in BagToSet(emitted) : Category(r) = "delete" }

\* a step is the successful completion of a fetch
FetchSucceeded(op) ==
    /\ op.kind = "complete"
    /\ op.status = StatusOk
    /\ Category(op.req) = "fetch"

\* C17: in normal mode the ids a successful fetch returns replace an empty
\* set (nothing unacknowledged is overwritten), they stay in ids_to_delete
\* until an idle evaluation emits one delete carrying exactly them and drops
\* them, and no fetch is emitted or outstanding while ids are held: every id
\* goes into exactly one delete, emitted before any later fetch.
C17_IdsAcknowledgedOnceBeforeNextFetch ==
    /\ [](~debug_mode /\ Truthy(ids_to_delete) => Outstanding("fetch") = 0)
    /\ [][ ~debug_mode =>
             /\ FetchSucceeded(last_op') =>
                  /\ ~Truthy(ids_to_delete)
                  /\ ids_to_delete' =
                       ListIds([i \in 1..Len(last_op'.body) |->
                                  last_op'.body[i].id])
             /\ (last_op'.kind = "on_idle" /\ Truthy(ids_to_delete)) =>
                  /\ Cardinality(EmittedDeletes(idle_emitted')) = 1
                  /\ \A r \in EmittedDeletes(idle_emitted') :
                       /\ r.ids = ids_to_delete.list
                       /\ CopiesIn(r, idle_emitted') = 1
                  /\ ~Truthy(ids_to_delete')
             /\ (last_op'.kind = "on_idle" /\ ~Truthy(ids_to_delete)) =>
                  EmittedDeletes(idle_emitted') = {}
             /\ "fetch" \in EmittedCategories(idle_emitted') =>
                  ~Truthy(ids_to_delete) /\ ~Truthy(ids_to_delete')
             /\ ids_to_delete' # ids_to_delete =>
                  \/ FetchSucceeded(last_op')
                  \/ last_op'.kind = "on_idle" /\ Truthy(ids_to_delete)
         ]_vars

\* in normal mode an idle evaluation has just emitted the delete for the
\* two ids of the second successful fetch
C17_Witness ==
    /\ ~debug_mode
    /\ last_op.kind = "on_idle"
    /\ num_callbacks = 2
    /\ \E r \in EmittedDeletes(idle_emitted) : r.ids = <<2, 3>>
    /\ ~Truthy(ids_to_delete)

\* a step that is not the completion of a fetch or of a delete
NotFetchOrDeleteCompletion(op) ==
    \/ op.kind \in {"on_idle", "add_link_to_hcf"}
    \/ /\ op.kind = "complete"
       /\ Category(op.req) \in {"flush", "followup"}

\* C18 (as claimed): an enqueue, an idle evaluation and the completions of
\* transmit and follow-up operations leave num_links_to_fetch and
\* ids_to_delete unchanged, and an enqueue changes nothing but the write
\* buffer.
C18_CounterAndIdsChangeOnlyInCompletions ==
    [][ /\ NotFetchOrDeleteCompletion(last_op') =>
             UNCHANGED <<num_links_to_fetch, ids_to_delete>>
        /\ last_op'.kind = "add_link_to_hcf" =>
             UNCHANGED <<num_links_to_fetch, ids_to_delete,
                         num_links_to_delete, new_job_scheduled>>
      ]_vars

\* C19 (as claimed): when an idle evaluation has emitted nothing, the write
\* buffer is empty, the counter is 0, ids_to_delete is empty or debug mode
\* is on, and the follow-up job is not requested or already triggered.
C19_NothingPendingWhenNothingEmitted ==
    (last_op.kind = "on_idle" /\ idle_emitted = EmptyBag) =>
        /\ LinkBuf = EmptyDict
        /\ num_links_to_fetch = 0
        /\ ~Truthy(ids_to_delete) \/ debug_mode
        /\ ~start_new_job \/ new_job_scheduled

----------------------------------------------------------------------------
(* Termination *)

\* C20: when every request is answered successfully, idle signals keep
\* arriving and finitely many links are added, an idle evaluation that
\* emits nothing is eventually reached, and the number of successful
\* fetches never exceeds the initial num_links_to_fetch.
C20_EventuallyNothingToEmit ==
    /\ <>(last_op.kind = "on_idle" /\ idle_emitted = EmptyBag)
    /\ [](num_callbacks <= arg_num_links_to_fetch)

\* in normal mode, as many successful fetches as the initial counter, each
\* answered with links while the remote queue still had more, and then an
\* idle evaluation that ends the chain without emitting
C20_Witness ==
    /\ ~debug_mode
    /\ last_op.kind = "on_idle"
    /\ idle_emitted = EmptyBag
    /\ idle_result = "None"
    /\ arg_num_links_to_fetch = MaxRemote
    /\ num_callbacks = MaxRemote
    /\ num_served = MaxRemote
    /\ num_enqueued > 0

----------------------------------------------------------------------------
(* Two instances *)

\* the links the instance taking a step has been given for a destination
\* and has not put in a transmit before
OwnPending(op, d) ==
    CASE op.kind \in {"add_link_to_hcf", "other_add_link_to_hcf"} -> op.hist
      [] op.kind = "on_idle" -> since_flush[d]
      [] op.kind = "other_on_idle" -> other_since_flush[d]
      [] OTHER -> <<>>

\* C13 (as claimed): an enqueue or an idle evaluation on one instance leaves
\* the write buffer, counter, pending-delete set and flag of the other
\* instance unchanged, and a transmit an instance emits carries exactly the
\* links added through that instance and not transmitted before.
C13_InstancesDoNotInterfere ==
    [][ /\ last_op'.kind \in {"add_link_to_hcf", "on_idle"} =>
             OtherLinkBuf' = OtherLinkBuf
        /\ last_op'.kind \in {"other_add_link_to_hcf", "other_on_idle"} =>
             /\ LinkBuf' = LinkBuf
             /\ UNCHANGED <<num_links_to_fetch, ids_to_delete,
                            num_links_to_delete, new_job_scheduled>>
        /\ \A d \in Destinations :
             \A r \in TransmitsTo(idle_emitted', add_result', d) :
                r.links = OwnPending(last_op', d)
      ]_vars

====
